---- MODULE Spec2Model ----
(***************************************************************************)
(* Model of the climate-alert backend: the Cyoda alert client              *)
(* (src/utils/cyoda_client.py), the alert REST routes                      *)
(* (backend/api/alert_routes.py), the on-demand ML model loaders           *)
(* (backend/api/ml_routes.py), the anomaly detector life cycle             *)
(* (src/models/anomaly_detector.py), the alert service                     *)
(* (src/services/alert_service.py), the data-frame helpers clean_data,     *)
(* split_data and create_time_features, and list_alerts under a threaded   *)
(* server.                                                                 *)
(*                                                                         *)
(* Units: anomaly scores are integers in hundredths (0.9 is 90), measured  *)
(* values are integers in tenths (0.1 is 1, 35 is 350).  A float is a      *)
(* record [nan, x]; every ordered comparison with NaN is false, as in      *)
(* IEEE-754 / Python.                                                      *)
(***************************************************************************)
EXTENDS Integers, Sequences, FiniteSets, TLC

VARIABLES
    call,               \* the last direct call made on a client, service or data function, or its input
    result,             \* what that call returned
    request,            \* the last HTTP request served by the alert blueprint
    response,           \* the response it got
    has_cached_alerts,  \* hasattr(list_alerts, 'cached_alerts')
    cached_alerts,      \* list_alerts.cached_alerts (<<>> while the attribute is absent)
    posted,             \* history: what the last answered 'Cached N alerts' POST cached
    alert_service,      \* alert_routes module global alert_service
    models,             \* ml_routes module globals: lstm_model, prophet_model, ...
    files,              \* which saved model files can be loaded from models/
    ml_request,         \* the last request served by the ml blueprint
    ml_response,        \* the response it got
    detector,           \* a ClimateAnomalyDetector instance: model, scaler, fitted
    completed,          \* history: some train/load_model call on detector has returned
    det_call,           \* the last call made on detector
    det_result,         \* how that call ended
    disk,               \* the detector's saved model and scaler files
    threads,            \* the server threads running list_alerts, each with its locals
    settled             \* history: a POST of a non-empty list answered, alone, and no POST began since

vars == <<call, result, request, response, has_cached_alerts, cached_alerts, posted,
          alert_service, models, files, ml_request, ml_response, detector, completed, det_call, det_result, disk,
          threads, settled>>

clientVars == <<call, result>>
routeVars  == <<request, response, has_cached_alerts, cached_alerts, posted, alert_service>>
mlVars     == <<models, files, ml_request, ml_response>>
detVars    == <<detector, completed, det_call, det_result, disk>>
threadVars == <<threads, settled>>

----------------------------------------------------------------------------
(* Python values.  A value is a record tagged with its type.               *)

None      == [t |-> "None"]
Str(s)    == [t |-> "str", v |-> s]
Bool(b)   == [t |-> "bool", v |-> b]
Dict(d)   == [t |-> "dict", v |-> d]
List(l)   == [t |-> "list", v |-> l]
F(x)      == [t |-> "float", nan |-> FALSE, x |-> x]
NaN       == [t |-> "float", nan |-> TRUE, x |-> 0]

EmptyDict == [k \in {} |-> None]

\* bool(v): the truth value Python gives a value in an `if`
Truthy(v) ==
    CASE v.t = "None"  -> FALSE
      [] v.t = "str"   -> v.v # ""
      [] v.t = "bool"  -> v.v
      [] v.t = "dict"  -> DOMAIN v.v # {}
      [] v.t = "list"  -> Len(v.v) > 0
      [] v.t = "float" -> v.nan \/ v.x # 0

\* a > k and a < k on floats
GT(a, k) == ~a.nan /\ a.x > k
LT(a, k) == ~a.nan /\ a.x < k

\* d[k] = v on a dict held as a function from keys to values
Put(d, k, v) == [x \in DOMAIN d \cup {k} |-> IF x = k THEN v ELSE d[x]]
\* d.get(k, default)
Get(d, k, default) == IF k \in DOMAIN d THEN d[k] ELSE default

----------------------------------------------------------------------------
(* CyodaAlertClient                                                        *)

ENTITY_MODEL   == "climate_alert"
ENTITY_VERSION == "1"

Severities == {"low", "medium", "high", "critical"}

classify_severity_nodefault(anomaly_score, value, metric) ==
    IF metric = Str("temperature") THEN
        IF GT(anomaly_score, 90) \/ GT(value, 400) \/ LT(value, -100) THEN "critical"
        ELSE IF GT(anomaly_score, 70) \/ GT(value, 350) \/ LT(value, -50) THEN "high"
        ELSE IF GT(anomaly_score, 50) THEN "medium"
        ELSE "low"
    ELSE IF metric = Str("precipitation") THEN
        IF GT(anomaly_score, 90) \/ GT(value, 1000) THEN "critical"
        ELSE IF GT(anomaly_score, 70) \/ GT(value, 500) THEN "high"
        ELSE IF GT(anomaly_score, 50) THEN "medium"
        ELSE "low"
    ELSE
        IF GT(anomaly_score, 85) THEN "critical"
        ELSE IF GT(anomaly_score, 70) THEN "high"
        ELSE IF GT(anomaly_score, 50) THEN "medium"
        ELSE "None"

classify_severity_ge(anomaly_score, value, metric) ==
    IF metric = Str("temperature") THEN
        IF GT(anomaly_score, 90) \/ GT(value, 400) \/ LT(value, -100) THEN "critical"
        ELSE IF GT(anomaly_score, 70) \/ GT(value, 349) \/ LT(value, -50) THEN "high"
        ELSE IF GT(anomaly_score, 50) THEN "medium"
        ELSE "low"
    ELSE IF metric = Str("precipitation") THEN
        IF GT(anomaly_score, 90) \/ GT(value, 1000) THEN "critical"
        ELSE IF GT(anomaly_score, 70) \/ GT(value, 500) THEN "high"
        ELSE IF GT(anomaly_score, 50) THEN "medium"
        ELSE "low"
    ELSE
        IF GT(anomaly_score, 85) THEN "critical"
        ELSE IF GT(anomaly_score, 70) THEN "high"
        ELSE IF GT(anomaly_score, 50) THEN "medium"
        ELSE "low"

classify_severity(anomaly_score, value, metric) ==
    IF metric = Str("temperature") THEN
        IF GT(anomaly_score, 90) \/ GT(value, 400) \/ LT(value, -100) THEN "critical"
        ELSE IF GT(anomaly_score, 70) \/ GT(value, 350) \/ LT(value, -50) THEN "high"
        ELSE IF GT(anomaly_score, 50) THEN "medium"
        ELSE "low"
    ELSE IF metric = Str("precipitation") THEN
        IF GT(anomaly_score, 90) \/ GT(value, 1000) THEN "critical"
        ELSE IF GT(anomaly_score, 70) \/ GT(value, 500) THEN "high"
        ELSE IF GT(anomaly_score, 50) THEN "medium"
        ELSE "low"
    ELSE
        IF GT(anomaly_score, 85) THEN "critical"
        ELSE IF GT(anomaly_score, 70) THEN "high"
        ELSE IF GT(anomaly_score, 50) THEN "medium"
        ELSE "low"

determine_alert_type_swapped(value, metric) ==
    IF metric = Str("temperature") THEN
        IF GT(value, 350) THEN "heat_wave"
        ELSE IF LT(value, 50) THEN "cold_snap"
        ELSE IF LT(value, 0) THEN "freeze_event"
        ELSE "temperature_anomaly"
    ELSE IF metric = Str("precipitation") THEN
        IF GT(value, 500) THEN "extreme_precipitation"
        ELSE IF LT(value, 1) THEN "drought_indicator"
        ELSE "precipitation_anomaly"
    ELSE "climate_anomaly"

determine_alert_type(value, metric) ==
    IF metric = Str("temperature") THEN
        IF GT(value, 350) THEN "heat_wave"
        ELSE IF LT(value, 0) THEN "freeze_event"
        ELSE IF LT(value, 50) THEN "cold_snap"
        ELSE "temperature_anomaly"
    ELSE IF metric = Str("precipitation") THEN
        IF GT(value, 500) THEN "extreme_precipitation"
        ELSE IF LT(value, 1) THEN "drought_indicator"
        ELSE "precipitation_anomaly"
    ELSE "climate_anomaly"

\* the entity_data literal create_alert starts from
entity_data_of(alert_type, severity, value, date, anomaly_score, location, metric, now) ==
    [alert_type    |-> alert_type,
     severity      |-> severity,
     value         |-> value,
     date          |-> date,
     anomaly_score |-> anomaly_score,
     location      |-> location,
     metric        |-> metric,
     status        |-> Str("active"),
     created_at    |-> Str(now),
     acknowledged  |-> Bool(FALSE),
     resolved      |-> Bool(FALSE)]

create_alert_merging(alert_type, severity, value, date, anomaly_score, location, metric, description, ai_analysis, recommendations, now) ==
    LET e0 == entity_data_of(alert_type, severity, value, date, anomaly_score, location,
                             metric, now)
        e1 == IF Truthy(description) THEN Put(e0, "description", description) ELSE e0
        e2 == IF Truthy(ai_analysis)
              THEN [k \in DOMAIN e1 \cup DOMAIN ai_analysis.v |->
                       IF k \in DOMAIN ai_analysis.v THEN ai_analysis.v[k] ELSE e1[k]]
              ELSE e1
        e3 == IF Truthy(recommendations) THEN Put(e2, "recommendations", recommendations)
              ELSE e2
    IN  [entity_model   |-> ENTITY_MODEL,
         entity_version |-> ENTITY_VERSION,
         entity_data    |-> e3]

create_alert(alert_type, severity, value, date, anomaly_score, location, metric, description, ai_analysis, recommendations, now) ==
    LET e0 == entity_data_of(alert_type, severity, value, date, anomaly_score, location,
                             metric, now)
        e1 == IF Truthy(description) THEN Put(e0, "description", description) ELSE e0
        e2 == IF Truthy(ai_analysis) THEN Put(e1, "ai_analysis", ai_analysis) ELSE e1
        e3 == IF Truthy(recommendations) THEN Put(e2, "recommendations", recommendations)
              ELSE e2
    IN  [entity_model   |-> ENTITY_MODEL,
         entity_version |-> ENTITY_VERSION,
         entity_data    |-> e3]

get_alert(alert_id) ==
    [entity_model   |-> ENTITY_MODEL,
     entity_id      |-> alert_id,
     entity_version |-> ENTITY_VERSION]

list_all_alerts ==
    [entity_model   |-> ENTITY_MODEL,
     entity_version |-> ENTITY_VERSION]

Simple(path, op, value) ==
    [type |-> "simple", jsonPath |-> path, operatorType |-> op, value |-> value]

AppendIf(cond, conditions, c) == IF cond THEN Append(conditions, c) ELSE conditions

\* the `if len(conditions) == 0 / == 1 / else` tail of search_alerts
search_conditions_always_group(conditions) ==
    IF Len(conditions) = 0 THEN Dict(EmptyDict)
    ELSE Dict([type |-> "group", operator |-> "AND", conditions |-> conditions])

search_conditions_of(conditions) ==
    IF Len(conditions) = 0 THEN Dict(EmptyDict)
    ELSE IF Len(conditions) = 1 THEN Dict(conditions[1])
    ELSE Dict([type |-> "group", operator |-> "AND", conditions |-> conditions])

search_alerts(status, severity, alert_type, min_anomaly_score, date_from, date_to) ==
    LET c1 == AppendIf(Truthy(status), <<>>,
                       Simple("$.status", "EQUALS", status))
        c2 == AppendIf(Truthy(severity), c1,
                       Simple("$.severity", "EQUALS", severity))
        c3 == AppendIf(Truthy(alert_type), c2,
                       Simple("$.alert_type", "EQUALS", alert_type))
        c4 == AppendIf(min_anomaly_score # None, c3,
                       Simple("$.anomaly_score", "GREATER_THAN", min_anomaly_score))
        c5 == AppendIf(Truthy(date_from), c4,
                       Simple("$.date", "GREATER_THAN", date_from))
        c6 == AppendIf(Truthy(date_to), c5,
                       Simple("$.date", "LESS_THAN", date_to))
    IN  [entity_model      |-> ENTITY_MODEL,
         entity_version    |-> ENTITY_VERSION,
         search_conditions |-> search_conditions_of(c6)]

update_alert_status_both_stamps(alert_id, status, acknowledged, resolved, resolution_notes, now) ==
    LET e0 == [status       |-> status,
               acknowledged |-> acknowledged,
               resolved     |-> resolved,
               updated_at   |-> Str(now)]
        e1 == IF Truthy(resolved) THEN Put(e0, "resolved_at", Str(now)) ELSE e0
        e2 == IF Truthy(acknowledged)
              THEN Put(e1, "acknowledged_at", Str(now)) ELSE e1
        e3 == IF Truthy(resolution_notes)
              THEN Put(e2, "resolution_notes", resolution_notes) ELSE e2
    IN  [entity_model   |-> ENTITY_MODEL,
         entity_id      |-> alert_id,
         entity_version |-> ENTITY_VERSION,
         entity_data    |-> e3]

update_alert_status(alert_id, status, acknowledged, resolved, resolution_notes, now) ==
    LET e0 == [status       |-> status,
               acknowledged |-> acknowledged,
               resolved     |-> resolved,
               updated_at   |-> Str(now)]
        e1 == IF Truthy(resolved) THEN Put(e0, "resolved_at", Str(now)) ELSE e0
        e2 == IF Truthy(acknowledged) /\ ~Truthy(resolved)
              THEN Put(e1, "acknowledged_at", Str(now)) ELSE e1
        e3 == IF Truthy(resolution_notes)
              THEN Put(e2, "resolution_notes", resolution_notes) ELSE e2
    IN  [entity_model   |-> ENTITY_MODEL,
         entity_id      |-> alert_id,
         entity_version |-> ENTITY_VERSION,
         entity_data    |-> e3]

----------------------------------------------------------------------------
(* GeminiCyodaIntegration._create_alert_entity_spec                        *)

create_alert_entity_spec(climate_data, analysis, now) ==
    [entity_model   |-> "climate_alert",
     entity_version |-> "1",
     entity_data    |->
        [alert_type      |-> Get(analysis, "alert_type", Str("climate_anomaly")),
         severity        |-> Get(analysis, "severity", Str("medium")),
         value           |-> Get(climate_data, "value", None),
         date            |-> Get(climate_data, "date", Str(now)),
         anomaly_score   |-> Get(analysis, "confidence", F(50)),
         location        |-> Str("Uruguay"),
         metric          |-> Get(climate_data, "metric", Str("temperature")),
         status          |-> Str("active"),
         acknowledged    |-> Bool(FALSE),
         resolved        |-> Bool(FALSE),
         created_at      |-> Str(now),
         description     |-> Get(analysis, "summary", None),
         ai_analysis     |-> Dict([full_analysis |-> Get(analysis, "detailed_analysis", None),
                                   confidence    |-> Get(analysis, "confidence", None),
                                   model         |-> Str("gemini-1.5-flash")]),
         recommendations |-> Get(analysis, "recommendations", List(<<>>)),
         generated_by    |-> Str("gemini_cyoda_integration")]]

----------------------------------------------------------------------------
(* Inputs                                                                  *)

\* anomaly scores around 0.5, 0.7, 0.85 and 0.9 (hundredths)
Scores == {F(x) : x \in {0, 50, 51, 70, 71, 85, 86, 90, 91, 100}} \cup {NaN}

\* values around -10, -5, 0, 0.1, 5, 35, 40, 50 and 100 (tenths)
Values == {F(x) : x \in {-101, -100, -51, -50, -1, 0, 1, 2, 49, 50, 51, 350, 351,
                         400, 401, 500, 501, 1000, 1001}} \cup {NaN}

Metrics == {Str("temperature"), Str("precipitation"), Str("humidity")}

Times == {"2024-01-15T10:00:00", "2024-01-15T10:00:01"}

\* the clock reading while a route is served
RequestTimes == {"2024-01-15T10:00:00"}

OptStr(s) == {None, Str(""), Str(s)}

AiAnalyses ==
    {None, Dict(EmptyDict),
     Dict([status |-> Str("resolved"), resolved |-> Bool(TRUE), acknowledged |-> Bool(TRUE)])}

Recommendations == {None, List(<<>>), List(<<Str("Issue heat advisory")>>)}

\* what Gemini's parsed answer may look like, including the parse-error dict
Analyses ==
    {EmptyDict,
     [error |-> Str("Failed to parse JSON")],
     [alert_type |-> Str("heat_wave"), severity |-> Str("critical"), confidence |-> F(92)],
     [severity |-> Str("high"), status |-> Str("resolved"), resolved |-> Bool(TRUE),
      acknowledged |-> Bool(TRUE), summary |-> Str("Hot")]}

ClimateData ==
    {EmptyDict,
     [value |-> F(425), date |-> Str("2024-01-15"), metric |-> Str("temperature")],
     [value |-> F(1200), metric |-> Str("precipitation"), status |-> Str("resolved")]}

----------------------------------------------------------------------------
(* Direct calls on the client objects                                      *)

NoCall == [fn |-> "none"]

CallClassifySeverity ==
    \E a \in Scores, v \in Values, m \in Metrics :
        /\ call' = [fn |-> "classify_severity", anomaly_score |-> a, value |-> v, metric |-> m]
        /\ result' = classify_severity(a, v, m)
        /\ UNCHANGED <<routeVars, mlVars, detVars, threadVars>>

CallDetermineAlertType ==
    \E v \in Values, m \in Metrics :
        /\ call' = [fn |-> "determine_alert_type", value |-> v, metric |-> m]
        /\ result' = determine_alert_type(v, m)
        /\ UNCHANGED <<routeVars, mlVars, detVars, threadVars>>

CallCreateAlert ==
    \E sev \in {Str("high"), Str("resolved")}, d \in OptStr("Heat wave"),
       ai \in AiAnalyses, rec \in Recommendations, now \in Times :
        /\ call' = [fn |-> "create_alert", severity |-> sev, description |-> d,
                    ai_analysis |-> ai, recommendations |-> rec]
        /\ result' = create_alert(Str("heat_wave"), sev, F(395), Str("2024-01-15"), F(85),
                                  Str("Uruguay"), Str("temperature"), d, ai, rec, now)
        /\ UNCHANGED <<routeVars, mlVars, detVars, threadVars>>

CallCreateAlertEntitySpec ==
    \E cd \in ClimateData, an \in Analyses, now \in Times :
        /\ call' = [fn |-> "_create_alert_entity_spec", climate_data |-> cd, analysis |-> an]
        /\ result' = create_alert_entity_spec(cd, an, now)
        /\ UNCHANGED <<routeVars, mlVars, detVars, threadVars>>

CallSearchAlerts ==
    \E st \in OptStr("active"), sev \in OptStr("high"), ty \in OptStr("heat_wave"),
       ms \in {None, F(0), F(70)}, df \in OptStr("2024-01-01"), dt \in OptStr("2024-12-31") :
        /\ call' = [fn |-> "search_alerts", status |-> st, severity |-> sev,
                    alert_type |-> ty, min_anomaly_score |-> ms,
                    date_from |-> df, date_to |-> dt]
        /\ result' = search_alerts(st, sev, ty, ms, df, dt)
        /\ UNCHANGED <<routeVars, mlVars, detVars, threadVars>>

CallUpdateAlertStatus ==
    \E st \in {Str("active"), Str("acknowledged"), Str("resolved")},
       ack \in {Bool(FALSE), Bool(TRUE)}, res \in {Bool(FALSE), Bool(TRUE)},
       notes \in OptStr("Team notified"), now \in Times :
        /\ call' = [fn |-> "update_alert_status", status |-> st, acknowledged |-> ack,
                    resolved |-> res, resolution_notes |-> notes]
        /\ result' = update_alert_status(Str("alert-1"), st, ack, res, notes, now)
        /\ UNCHANGED <<routeVars, mlVars, detVars, threadVars>>

----------------------------------------------------------------------------
(* ClimateAlertService (src/services/alert_service.py)                     *)

SeverityOrder(sev) ==
    CASE sev = Str("critical") -> 4
      [] sev = Str("high")     -> 3
      [] sev = Str("medium")   -> 2
      [] sev = Str("low")      -> 1
      [] OTHER                 -> 0

\* (pd.Timestamp.now() - pd.to_datetime(date)).days for the dates used here;
\* a date that does not parse is outside the table
DaysAgo ==
    [d \in {"2024-06-30", "2024-06-20", "2024-05-01", "2024-07-10", "2000-01-01"} |->
        CASE d = "2024-06-30" -> 0
          [] d = "2024-06-20" -> 10
          [] d = "2024-05-01" -> 60
          [] d = "2024-07-10" -> -10
          [] d = "2000-01-01" -> 8947]

Max(a, b) == IF a >= b THEN a ELSE b

\* recency_score in thirtieths: max(0, 30 - days_ago), or 0 when the date raises
RecencyScore30(alert) ==
    LET date == Get(alert.v, "date", Str("2000-01-01"))
    IN  IF date.t = "str" /\ date.v \in DOMAIN DaysAgo
        THEN Max(0, 30 - DaysAgo[date.v])
        ELSE 0

\* priority_score in thirtieths
PriorityScore30(alert) ==
    LET severity_score == SeverityOrder(Get(alert.v, "severity", Str("low")))
        ack_penalty    == IF Truthy(Get(alert.v, "acknowledged", Bool(FALSE))) THEN 0 ELSE 2
    IN  30 * (severity_score + ack_penalty) + RecencyScore30(alert)

\* sorted(alerts, key=priority_score, reverse=True): stable, highest score first
RECURSIVE InsertByScore(_, _)
InsertByScore(sorted, a) ==
    IF sorted = <<>> THEN <<a>>
    ELSE IF PriorityScore30(sorted[Len(sorted)]) >= PriorityScore30(a)
         THEN Append(sorted, a)
         ELSE Append(InsertByScore(SubSeq(sorted, 1, Len(sorted) - 1), a), sorted[Len(sorted)])

RECURSIVE SortedByScore(_)
SortedByScore(alerts) ==
    IF alerts = <<>> THEN <<>>
    ELSE InsertByScore(SortedByScore(SubSeq(alerts, 1, Len(alerts) - 1)), alerts[Len(alerts)])

RECURSIVE Reversed(_)
Reversed(q) == IF q = <<>> THEN <<>> ELSE Append(Reversed(Tail(q)), Head(q))

prioritize_alerts_ascending(alerts) ==
    IF Len(alerts) = 0 THEN <<>> ELSE Reversed(SortedByScore(alerts))

prioritize_alerts(alerts) ==
    IF Len(alerts) = 0 THEN <<>> ELSE SortedByScore(alerts)

\* the three terms priority_score adds up for one alert, recency in thirtieths
PriorityKey(alert) ==
    [severity_score  |-> SeverityOrder(Get(alert.v, "severity", Str("low"))),
     ack_penalty     |-> IF Truthy(Get(alert.v, "acknowledged", Bool(FALSE))) THEN 0 ELSE 2,
     recency_score30 |-> RecencyScore30(alert)]

CountWhere(alerts, key, value) ==
    Cardinality({i \in 1..Len(alerts) : Get(alerts[i].v, key, None) = value})

get_active_alerts_summary(alerts) ==
    IF Len(alerts) = 0
    THEN [total |-> 0, critical_count |-> 0]
    ELSE [total              |-> Len(alerts),
          critical_count     |-> CountWhere(alerts, "severity", Str("critical")),
          active_count       |-> CountWhere(alerts, "status", Str("active")),
          acknowledged_count |-> CountWhere(alerts, "acknowledged", Bool(TRUE)),
          resolved_count     |-> CountWhere(alerts, "resolved", Bool(TRUE))]

\* _generate_ai_analysis: {} when Gemini raises, the three-part dict otherwise
generate_ai_analysis(gemini_ok, alert_type, severity, anomaly_score) ==
    IF ~gemini_ok THEN EmptyDict
    ELSE [analysis        |-> Dict([full_report |-> Str("report"), alert_type |-> alert_type,
                                    severity |-> severity, confidence |-> anomaly_score]),
          recommendations |-> List(<<Str("Issue public advisory immediately")>>),
          summary         |-> Str("summary")]

\* what ClimateAnomalyDetector.detect and predict raise on an unfitted detector
NotTrained == "ValueError: Model not trained yet!"

\* the collaborators a ClimateAlertService is built with; each may be None
FittedDetector   == [t |-> "ClimateAnomalyDetector", fitted |-> TRUE]
UnfittedDetector == [t |-> "ClimateAnomalyDetector", fitted |-> FALSE]
GeminiClient     == [t |-> "GeminiClimateAnalyst"]
CyodaClient      == [t |-> "CyodaAlertClient"]

ClimateAlertService(anomaly_detector, gemini_client, cyoda_client) ==
    [t |-> "ClimateAlertService", anomaly_detector |-> anomaly_detector,
     gemini_client |-> gemini_client, cyoda_client |-> cyoda_client]

\* rows of a climate frame: a date and a measured value in tenths
Readings == {[date |-> "2024-01-15", value |-> 395], [date |-> "2024-01-16", value |-> 210],
             [date |-> "2024-07-02", value |-> -60]}

\* what the fitted IsolationForest gives a row: predictions == -1 and -score_samples
Verdict(row) ==
    [is_anomaly    |-> row.value > 350 \/ row.value < 0,
     anomaly_score |-> IF row.value > 350 THEN 90 ELSE IF row.value < 0 THEN 75 ELSE 40]

\* prepare_features turns the date column into Timestamps; the loop takes isoformat()
IsoFormat ==
    [d \in {"2024-01-15", "2024-01-16", "2024-07-02"} |->
        CASE d = "2024-01-15" -> "2024-01-15T00:00:00"
          [] d = "2024-01-16" -> "2024-01-16T00:00:00"
          [] d = "2024-07-02" -> "2024-07-02T00:00:00"]

\* _generate_basic_description: a non-empty text built from type, severity and value
basic_description == Str("Alert detected")

\* the loop body of detect_and_create_alerts for one anomalous row: the calls it
\* makes on the collaborators, and the alert specification it appends
AlertFor(self, row, metric, use_ai_analysis, gemini_ok, now) ==
    LET date          == Str(IsoFormat[row.date])
        value         == F(row.value)
        anomaly_score == F(Verdict(row).anomaly_score)
        severity      == classify_severity(anomaly_score, value, metric)
        alert_type    == determine_alert_type(value, metric)
        with_ai       == use_ai_analysis /\ self.gemini_client # None
        ai            == generate_ai_analysis(gemini_ok, alert_type, severity, anomaly_score)
    IN  [effects |-> (IF with_ai THEN <<"gemini_client.generate_anomaly_report">> ELSE <<>>)
                     \o <<"cyoda_client.create_alert">>,
         spec    |-> IF with_ai
                     THEN create_alert(alert_type, severity, value, date, anomaly_score,
                              Str("Uruguay"), metric, Get(ai, "summary", Str("")),
                              Get(ai, "analysis", Dict(EmptyDict)),
                              Get(ai, "recommendations", List(<<>>)), now)
                     ELSE create_alert(alert_type, severity, value, date, anomaly_score,
                              Str("Uruguay"), metric, basic_description, None, None, now)]

RECURSIVE AlertsFor(_, _, _, _, _, _)
AlertsFor(self, rows, metric, use_ai_analysis, gemini_ok, now) ==
    IF rows = <<>> THEN [effects |-> <<>>, alerts |-> <<>>]
    ELSE LET rest == AlertsFor(self, Tail(rows), metric, use_ai_analysis, gemini_ok, now)
             one  == AlertFor(self, Head(rows), metric, use_ai_analysis, gemini_ok, now)
         IN  IF Verdict(Head(rows)).is_anomaly
             THEN [effects |-> one.effects \o rest.effects, alerts |-> <<one.spec>> \o rest.alerts]
             ELSE rest

Raised(error, effects) == [raised |-> error, effects |-> effects, alerts |-> <<>>]

detect_and_create_alerts_checks_client_late(self, climate_data, metric, use_ai_analysis, gemini_ok, now) ==
    IF self.anomaly_detector = None
    THEN Raised("ValueError: Anomaly detector not initialized", <<>>)
    ELSE IF ~self.anomaly_detector.fitted
    THEN Raised(NotTrained, <<"anomaly_detector.detect">>)
    ELSE IF climate_data = <<>>
    THEN Raised("ValueError: Found array with 0 sample(s)", <<"anomaly_detector.detect">>)
    ELSE IF self.cyoda_client = None
    THEN Raised("ValueError: Cyoda client not initialized", <<"anomaly_detector.detect">>)
    ELSE LET made == AlertsFor(self, climate_data, metric, use_ai_analysis, gemini_ok, now)
         IN  [raised |-> "no", effects |-> <<"anomaly_detector.detect">> \o made.effects,
              alerts |-> made.alerts]

\* detect_and_create_alerts: how the call ends (raised), the calls it made on the
\* detector, the AI client and the Cyoda client, in order, and the list it returns
detect_and_create_alerts(self, climate_data, metric, use_ai_analysis, gemini_ok, now) ==
    IF self.anomaly_detector = None
    THEN Raised("ValueError: Anomaly detector not initialized", <<>>)
    ELSE IF self.cyoda_client = None
    THEN Raised("ValueError: Cyoda client not initialized", <<>>)
    ELSE IF ~self.anomaly_detector.fitted
    THEN Raised(NotTrained, <<"anomaly_detector.detect">>)
    ELSE IF climate_data = <<>>
    THEN Raised("ValueError: Found array with 0 sample(s)", <<"anomaly_detector.detect">>)
    ELSE LET made == AlertsFor(self, climate_data, metric, use_ai_analysis, gemini_ok, now)
         IN  [raised |-> "no", effects |-> <<"anomaly_detector.detect">> \o made.effects,
              alerts |-> made.alerts]

----------------------------------------------------------------------------
(* backend/api/alert_routes.py                                             *)

\* get_alert_service: builds the service on first use; det_ok says whether the
\* anomaly model files load, key_ok whether GEMINI_API_KEY is set
get_alert_service(service, det_ok, key_ok) ==
    IF service = None
    THEN ClimateAlertService(IF det_ok THEN FittedDetector ELSE None,
                             IF key_ok THEN GeminiClient ELSE None, CyodaClient)
    ELSE service

\* the environment is consulted only while the service has not been built
EnvChoice == IF alert_service = None THEN BOOLEAN ELSE {TRUE}

Ok(body)        == [status |-> 200, body |-> body]
Err(code, text) == [status |-> code, body |-> [success |-> FALSE, error |-> text]]

\* float(x) raises for None and for a string that is not a number
FloatRaises(x) == x.t \notin {"float", "bool"}

NoRequest == [method |-> "none", route |-> "none"]

\* POST /create
CreateAlertSpec ==
    \E sev \in {None, Str("high")}, value \in {None, F(0), F(395), Str("hot")},
       use_ai \in BOOLEAN, det_ok \in EnvChoice, key_ok \in EnvChoice, gemini_ok \in BOOLEAN,
       now \in RequestTimes :
        LET alert_type    == Str("heat_wave")
            date          == Str("2024-01-15")
            anomaly_score == F(85)
            metric        == Str("temperature")
            missing       == \E x \in {alert_type, sev, value, date, anomaly_score} : ~Truthy(x)
            service       == get_alert_service(alert_service, det_ok, key_ok)
            with_ai       == use_ai /\ service.gemini_client # None
            ai            == generate_ai_analysis(gemini_ok, alert_type, sev, anomaly_score)
            spec          == IF with_ai
                             THEN create_alert(alert_type, sev, value, date, anomaly_score,
                                      Str("Uruguay"), metric,
                                      Get(ai, "summary", Str("")),
                                      Get(ai, "analysis", Dict(EmptyDict)),
                                      Get(ai, "recommendations", List(<<>>)), now)
                             ELSE create_alert(alert_type, sev, value, date, anomaly_score,
                                      Str("Uruguay"), metric, None, None, None, now)
        IN  /\ request' = [method |-> "POST", route |-> "/create", severity |-> sev,
                           value |-> value, use_ai_analysis |-> use_ai]
            /\ response' = IF missing THEN Err(400, "Missing required fields")
                           ELSE IF FloatRaises(value) THEN Err(500, "could not convert to float")
                           ELSE Ok([success |-> TRUE, alert_specification |-> spec])
            /\ alert_service' = IF ~missing /\ ~FloatRaises(value) /\ use_ai
                                THEN service ELSE alert_service
            /\ UNCHANGED <<has_cached_alerts, cached_alerts, posted>>
            /\ UNCHANGED <<clientVars, mlVars, detVars, threadVars>>

\* POST /search
SearchAlertsSpec ==
    \E st \in OptStr("active"), ms \in {None, F(0), F(70)}, df \in OptStr("2024-01-01") :
        /\ request' = [method |-> "POST", route |-> "/search", status |-> st,
                       min_anomaly_score |-> ms, date_from |-> df]
        /\ response' = Ok([success |-> TRUE,
                           search_specification |-> search_alerts(st, None, None, ms, df, None)])
        /\ UNCHANGED <<has_cached_alerts, cached_alerts, posted, alert_service>>
        /\ UNCHANGED <<clientVars, mlVars, detVars, threadVars>>

\* PUT /update/<alert_id>; st, ack and res are None when the body omits them
UpdateAlertSpec ==
    \E id \in {"alert-1", "alert-2"}, st \in {None, Str("resolved")},
       ack \in {None, Bool(TRUE)}, res \in {None, Bool(TRUE)}, now \in RequestTimes :
        /\ request' = [method |-> "PUT", route |-> "/update", alert_id |-> id, status |-> st,
                       acknowledged |-> ack, resolved |-> res]
        /\ response' = Ok([success |-> TRUE,
                           update_specification |->
                               update_alert_status(Str(id),
                                   IF st = None THEN Str("active") ELSE st,
                                   IF ack = None THEN Bool(FALSE) ELSE ack,
                                   IF res = None THEN Bool(FALSE) ELSE res,
                                   None, now)])
        /\ UNCHANGED <<has_cached_alerts, cached_alerts, posted, alert_service>>
        /\ UNCHANGED <<clientVars, mlVars, detVars, threadVars>>

\* GET /get/<alert_id>
GetAlertSpec ==
    \E id \in {"alert-1", "alert-2"} :
        /\ request' = [method |-> "GET", route |-> "/get", alert_id |-> id]
        /\ response' = Ok([success |-> TRUE, get_specification |-> get_alert(Str(id))])
        /\ UNCHANGED <<has_cached_alerts, cached_alerts, posted, alert_service>>
        /\ UNCHANGED <<clientVars, mlVars, detVars, threadVars>>

\* POST /classify; metric and anomaly_score are None when the body omits them
ClassifyAlert ==
    \E value \in {None, F(395), F(-60), F(20)},
       metric \in {None, Str("precipitation"), Str("humidity")},
       score \in {None, F(95), F(60)} :
        LET m == IF metric = None THEN Str("temperature") ELSE metric
            a == IF score = None THEN F(50) ELSE score
        IN  /\ request' = [method |-> "POST", route |-> "/classify", value |-> value,
                           metric |-> metric, anomaly_score |-> score]
            /\ response' = IF FloatRaises(value)
                           THEN Err(500, "float() argument must be a string or a real number")
                           ELSE Ok([success    |-> TRUE,
                                    severity   |-> classify_severity(a, value, m),
                                    alert_type |-> determine_alert_type(value, m)])
            /\ UNCHANGED <<has_cached_alerts, cached_alerts, posted, alert_service>>
            /\ UNCHANGED <<clientVars, mlVars, detVars, threadVars>>

\* longest alert list a request carries
MaxAlerts == 2

\* most rows in a climate frame handed to the service
MaxRows == 2

SeqsUpTo(S, n) == UNION {[1..k -> S] : k \in 0..n}

\* alerts as the client holds them after a Cyoda search
Alert1 == Dict([severity |-> Str("critical"), acknowledged |-> Bool(TRUE),
                date |-> Str("2024-06-20"), status |-> Str("active")])
Alert2 == Dict([severity |-> Str("low"), date |-> Str("2024-07-10")])
Alert3 == Dict([severity |-> Str("high"), acknowledged |-> Bool(FALSE),
                date |-> Str("not a date"), status |-> Str("resolved")])

\* an entity in Cyoda's wrapper format, and one whose meta part is missing
Wrapped == Dict([data |-> Dict([type |-> Str("ENTITY"),
                                data |-> Dict([severity |-> Str("medium")]),
                                meta |-> Dict([id |-> Str("uuid-1")])])])
WrappedNoMeta == Dict([data |-> Dict([type |-> Str("ENTITY"),
                                      data |-> Dict([severity |-> Str("medium")])])])

Entities == {Alert1, Wrapped, WrappedNoMeta, Str("not an entity")}

IsDict(e) == e.t = "dict"

\* the test `'data' in entity and entity.get('data', {}).get('type') == 'ENTITY'`
IsWrapper(e) ==
    /\ "data" \in DOMAIN e.v
    /\ Get(e.v["data"].v, "type", None) = Str("ENTITY")

\* entity['data']['meta'] or entity_meta['id'] raises KeyError
NormalizeRaises(e) ==
    /\ IsDict(e)
    /\ IsWrapper(e)
    /\ \/ "data" \notin DOMAIN e.v["data"].v
       \/ "meta" \notin DOMAIN e.v["data"].v
       \/ "id" \notin DOMAIN e.v["data"].v["meta"].v

\* {'technical_id': entity_meta['id'], **entity_data} for a wrapper, the entity itself otherwise
NormalizeEntity(e) ==
    IF IsWrapper(e)
    THEN LET entity_data == e.v["data"].v["data"].v
             entity_meta == e.v["data"].v["meta"].v
         IN  Dict([k \in {"technical_id"} \cup DOMAIN entity_data |->
                      IF k \in DOMAIN entity_data THEN entity_data[k] ELSE entity_meta["id"]])
    ELSE e

\* the alerts list the POST branch builds: dict entities only, each normalised
NormalizeAlerts_keep_all(entities) ==
    [i \in 1..Len(entities) |-> IF IsDict(entities[i]) THEN NormalizeEntity(entities[i])
                                ELSE entities[i]]

NormalizeAlerts(entities) ==
    LET dicts == SelectSeq(entities, IsDict)
    IN  [i \in 1..Len(dicts) |-> NormalizeEntity(dicts[i])]

\* the `if list_alerts.cached_alerts:` tail shared by GET and by a POST without alerts
ListResponse_always_cached(cached) ==
    Ok([success |-> TRUE, alerts |-> cached, count |-> Len(cached), cached |-> TRUE])

ListResponse(cached) ==
    IF Len(cached) > 0
    THEN Ok([success |-> TRUE, alerts |-> cached, count |-> Len(cached), cached |-> TRUE])
    ELSE Ok([success |-> TRUE, mcp_spec |-> list_all_alerts, alerts |-> <<>>,
             cached |-> FALSE])

NoPost == [answered |-> FALSE, count |-> 0, alerts |-> <<>>]

\* the cache on entry to the handler body: created empty when the attribute is absent
CacheOnEntry == IF has_cached_alerts THEN cached_alerts ELSE <<>>

\* GET /list
ListAlertsGet ==
    /\ request' = [method |-> "GET", route |-> "/list"]
    /\ has_cached_alerts' = TRUE
    /\ cached_alerts' = CacheOnEntry
    /\ response' = ListResponse(CacheOnEntry)
    /\ UNCHANGED <<posted, alert_service>>
    /\ UNCHANGED <<clientVars, mlVars, detVars, threadVars>>

\* POST /list with an 'alerts' key in the body
ListAlertsPost ==
    \E entities \in SeqsUpTo(Entities, MaxAlerts) :
        LET raises == \E i \in 1..Len(entities) : NormalizeRaises(entities[i])
            alerts == NormalizeAlerts(entities)
        IN  /\ request' = [method |-> "POST", route |-> "/list", alerts |-> entities]
            /\ has_cached_alerts' = TRUE
            /\ cached_alerts' = IF raises THEN CacheOnEntry ELSE alerts
            /\ response' = IF raises
                           THEN [status |-> 500, body |-> [error |-> "Internal Server Error"]]
                           ELSE Ok([success |-> TRUE, message |-> [cached |-> Len(alerts)],
                                    count |-> Len(alerts)])
            /\ posted' = IF raises THEN posted
                         ELSE [answered |-> TRUE, count |-> Len(alerts), alerts |-> alerts]
            /\ UNCHANGED alert_service
            /\ UNCHANGED <<clientVars, mlVars, detVars, threadVars>>

\* POST /list whose body is empty or has no 'alerts' key: falls through to the GET tail
ListAlertsPostNoAlerts ==
    /\ request' = [method |-> "POST", route |-> "/list", alerts |-> None]
    /\ has_cached_alerts' = TRUE
    /\ cached_alerts' = CacheOnEntry
    /\ response' = ListResponse(CacheOnEntry)
    /\ UNCHANGED <<posted, alert_service>>
    /\ UNCHANGED <<clientVars, mlVars, detVars, threadVars>>

\* POST /summary
AlertsSummary ==
    \E alerts \in SeqsUpTo({Alert1, Alert3}, MaxAlerts), det_ok \in EnvChoice, key_ok \in EnvChoice :
        /\ request' = [method |-> "POST", route |-> "/summary", alerts |-> alerts]
        /\ alert_service' = get_alert_service(alert_service, det_ok, key_ok)
        /\ response' = Ok([success |-> TRUE, summary |-> get_active_alerts_summary(alerts)])
        /\ UNCHANGED <<has_cached_alerts, cached_alerts, posted>>
        /\ UNCHANGED <<clientVars, mlVars, detVars, threadVars>>

\* POST /prioritize
PrioritizeAlerts_caching ==
    \E alerts \in SeqsUpTo({Alert1, Alert2, Alert3}, MaxAlerts),
       det_ok \in EnvChoice, key_ok \in EnvChoice :
        /\ request' = [method |-> "POST", route |-> "/prioritize", alerts |-> alerts]
        /\ alert_service' = get_alert_service(alert_service, det_ok, key_ok)
        /\ response' = Ok([success |-> TRUE, prioritized_alerts |-> prioritize_alerts(alerts)])
        /\ cached_alerts' = prioritize_alerts(alerts)
        /\ UNCHANGED <<has_cached_alerts, posted>>
        /\ UNCHANGED <<clientVars, mlVars, detVars, threadVars>>

PrioritizeAlerts ==
    \E alerts \in SeqsUpTo({Alert1, Alert2, Alert3}, MaxAlerts),
       det_ok \in EnvChoice, key_ok \in EnvChoice :
        /\ request' = [method |-> "POST", route |-> "/prioritize", alerts |-> alerts]
        /\ alert_service' = get_alert_service(alert_service, det_ok, key_ok)
        /\ response' = Ok([success |-> TRUE, prioritized_alerts |-> prioritize_alerts(alerts)])
        /\ UNCHANGED <<has_cached_alerts, cached_alerts, posted>>
        /\ UNCHANGED <<clientVars, mlVars, detVars, threadVars>>

\* str(e) of the exceptions detect_and_create_alerts ends with
Message(error) ==
    CASE error = "ValueError: Anomaly detector not initialized" -> "Anomaly detector not initialized"
      [] error = "ValueError: Cyoda client not initialized"     -> "Cyoda client not initialized"
      [] error = NotTrained                                     -> "Model not trained yet!"
      [] OTHER                                                  -> "Found array with 0 sample(s)"

\* POST /detect; metric and use_ai_analysis are None when the body omits them
DetectAlerts ==
    \E data \in SeqsUpTo(Readings, 1), metric \in {None, Str("precipitation")},
       use_ai \in {None, Bool(FALSE)}, det_ok \in EnvChoice, key_ok \in EnvChoice,
       gemini_ok \in BOOLEAN, now \in RequestTimes :
        LET service == get_alert_service(alert_service, det_ok, key_ok)
            m       == IF metric = None THEN Str("temperature") ELSE metric
            ai      == IF use_ai = None THEN TRUE ELSE use_ai.v
            done    == detect_and_create_alerts(service, data, m, ai, gemini_ok, now)
        IN  /\ call = NoCall
            /\ request' = [method |-> "POST", route |-> "/detect", data |-> data,
                           metric |-> metric, use_ai_analysis |-> use_ai]
            /\ response' = IF data = <<>> THEN Err(400, "No climate data provided")
                           ELSE IF done.raised # "no" THEN Err(500, Message(done.raised))
                           ELSE Ok([success |-> TRUE, alerts_detected |-> Len(done.alerts),
                                    alert_specifications |-> done.alerts])
            /\ alert_service' = IF data = <<>> THEN alert_service ELSE service
            /\ UNCHANGED <<has_cached_alerts, cached_alerts, posted>>
            /\ UNCHANGED <<clientVars, mlVars, detVars, threadVars>>

\* a ClimateAlertService built by a caller with any collaborators, and one
\* detect_and_create_alerts call on it; the caller is a script or a test, a
\* process that serves no routes
CallDetectAndCreateAlerts ==
    \E det \in {None, FittedDetector, UnfittedDetector}, gem \in {None, GeminiClient},
       cli \in {None, CyodaClient}, data \in SeqsUpTo(Readings, MaxRows),
       metric \in {Str("temperature"), Str("precipitation")}, use_ai \in BOOLEAN,
       gemini_ok \in BOOLEAN, now \in RequestTimes :
        LET self == ClimateAlertService(det, gem, cli)
        IN  /\ request = NoRequest
            /\ call' = [fn |-> "detect_and_create_alerts", self |-> self, climate_data |-> data,
                        metric |-> metric, use_ai_analysis |-> use_ai]
            /\ result' = detect_and_create_alerts(self, data, metric, use_ai, gemini_ok, now)
            /\ UNCHANGED <<routeVars, mlVars, detVars, threadVars>>

\* most alerts in a list handed to prioritize_alerts directly
MaxPrioritized == 2

\* alerts of every severity, acknowledged or not, dated today, 10 and 60 days
\* ago, 10 days ahead, or with a date that does not parse; one with no fields
\* and one whose severity is not a known label
PriorityAlerts ==
    LET AlertOf(severity, acknowledged, date) ==
            IF acknowledged
            THEN Dict([severity |-> Str(severity), acknowledged |-> Bool(TRUE), date |-> Str(date)])
            ELSE Dict([severity |-> Str(severity), date |-> Str(date)])
    IN  {AlertOf(sev, ack, date) : sev \in Severities, ack \in BOOLEAN,
            date \in {"2024-06-30", "2024-06-20", "2024-05-01", "2024-07-10", "not a date"}}
        \cup {Dict(EmptyDict), Dict([severity |-> Str("severe"), date |-> Str("2024-06-30")])}

\* service.prioritize_alerts(alerts) on a list the caller holds; result keeps the
\* returned list and the key terms sorted() computed for each input alert
CallPrioritizeAlerts ==
    /\ call.fn = "alerts"
    /\ call' = [fn |-> "prioritize_alerts", alerts |-> call.alerts]
    /\ result' = [sorted |-> prioritize_alerts(call.alerts),
                  keys   |-> [i \in 1..Len(call.alerts) |-> PriorityKey(call.alerts[i])]]
    /\ UNCHANGED <<routeVars, mlVars, detVars, threadVars>>

----------------------------------------------------------------------------
(* backend/api/ml_routes.py: module globals and on-demand loaders          *)

ModelNames == {"lstm", "prophet", "anomaly", "classifier"}

\* a model object as the routes see it: usable once load_model has returned
Instance(fitted) == [t |-> "model", fitted |-> fitted]

\* load_*_model: the global after the call; `ok` says whether load_model returns
Loaded_reset_on_failure(global, ok) ==
    IF global = None
    THEN IF ok THEN Instance(TRUE) ELSE None
    ELSE global

Loaded(global, ok) ==
    IF global = None
    THEN IF ok THEN Instance(TRUE) ELSE Instance(FALSE)
    ELSE global

NotTrainedYet(name) ==
    CASE name = "lstm"       -> "LSTM model not trained yet. Run train_ml_models.py first."
      [] name = "prophet"    -> "Prophet model not trained yet. Run train_ml_models.py first."
      [] name = "anomaly"    -> "Anomaly detector not trained yet. Run train_ml_models.py first."
      [] name = "classifier" -> "Climate classifier not trained yet. Run train_ml_models.py first."

\* the part of a route after its own request checks: load, 503 on None, then predict
Serve(name, predict_ok) ==
    LET model == Loaded(models[name], files[name])
    IN  /\ models' = [models EXCEPT ![name] = model]
        /\ ml_response' =
              IF model = None THEN Err(503, NotTrainedYet(name))
              ELSE IF ~model.fitted THEN Err(500, "Model not trained yet!")
              ELSE IF ~predict_ok THEN Err(500, "prediction failed")
              ELSE Ok([success |-> TRUE])

\* POST /lstm-forecast
LstmForecast ==
    \E predict_ok \in BOOLEAN :
        /\ ml_request' = [route |-> "/lstm-forecast", model |-> "lstm", valid |-> TRUE,
                          files_ok |-> files["lstm"]]
        /\ Serve("lstm", predict_ok)
        /\ UNCHANGED files
        /\ UNCHANGED <<clientVars, routeVars, detVars, threadVars>>

\* GET /prophet-forecast; days_ok says whether int(request.args.get('days')) returns
ProphetForecast ==
    \E days_ok \in BOOLEAN, predict_ok \in BOOLEAN :
        /\ ml_request' = [route |-> "/prophet-forecast", model |-> "prophet",
                          valid |-> days_ok, files_ok |-> files["prophet"]]
        /\ IF days_ok THEN Serve("prophet", predict_ok)
           ELSE /\ ml_response' = Err(500, "invalid literal for int()")
                /\ UNCHANGED models
        /\ UNCHANGED files
        /\ UNCHANGED <<clientVars, routeVars, detVars, threadVars>>

\* POST /detect-anomalies
DetectAnomalies ==
    \E has_data \in BOOLEAN, predict_ok \in BOOLEAN :
        /\ ml_request' = [route |-> "/detect-anomalies", model |-> "anomaly",
                          valid |-> has_data, files_ok |-> files["anomaly"]]
        /\ IF has_data THEN Serve("anomaly", predict_ok)
           ELSE /\ ml_response' = Err(400, "No data provided")
                /\ UNCHANGED models
        /\ UNCHANGED files
        /\ UNCHANGED <<clientVars, routeVars, detVars, threadVars>>

\* POST /classify-patterns
ClassifyPatterns ==
    \E has_data \in BOOLEAN, predict_ok \in BOOLEAN :
        /\ ml_request' = [route |-> "/classify-patterns", model |-> "classifier",
                          valid |-> has_data, files_ok |-> files["classifier"]]
        /\ IF has_data THEN Serve("classifier", predict_ok)
           ELSE /\ ml_response' = Err(400, "No data provided")
                /\ UNCHANGED models
        /\ UNCHANGED files
        /\ UNCHANGED <<clientVars, routeVars, detVars, threadVars>>

\* scripts/train_ml_models.py saves a model's files; they may also be removed
FilesChange ==
    \E name \in ModelNames :
        /\ files' = [files EXCEPT ![name] = ~files[name]]
        /\ UNCHANGED <<models, ml_request, ml_response>>
        /\ UNCHANGED <<clientVars, routeVars, detVars, threadVars>>

----------------------------------------------------------------------------
(* src/models/anomaly_detector.py: ClimateAnomalyDetector                  *)

\* frames a caller may pass: two usable ones, one with no rows, one without the value column
Frames == {"daily", "hourly", "empty", "no_value_column"}

\* __init__: an unfitted IsolationForest and StandardScaler, fitted = False
NewDetector == [model |-> "unfitted", scaler |-> "unfitted", fitted |-> FALSE]

\* prepare_features raises KeyError without the value column; the scaler raises
\* ValueError on a frame with no rows
FrameError(df) ==
    CASE df = "no_value_column" -> "KeyError: 'value'"
      [] df = "empty"           -> "ValueError: Found array with 0 sample(s)"
      [] OTHER                  -> "returned"

\* train: model and scaler are fitted on df, then fitted = True
train(self, df) ==
    IF FrameError(df) # "returned" THEN self
    ELSE [model |-> df, scaler |-> df, fitted |-> TRUE]

\* load_model: joblib.load of the model file, then of the scaler file, then fitted = True
load_model_flag_first(self, files_on_disk) ==
    IF files_on_disk.model = "absent" THEN [self EXCEPT !.fitted = TRUE]
    ELSE IF files_on_disk.scaler = "absent"
         THEN [self EXCEPT !.model = files_on_disk.model, !.fitted = TRUE]
         ELSE [model |-> files_on_disk.model, scaler |-> files_on_disk.scaler, fitted |-> TRUE]

load_model(self, files_on_disk) ==
    IF files_on_disk.model = "absent" THEN self
    ELSE IF files_on_disk.scaler = "absent" THEN [self EXCEPT !.model = files_on_disk.model]
    ELSE [model |-> files_on_disk.model, scaler |-> files_on_disk.scaler, fitted |-> TRUE]

LoadRaises(files_on_disk) == files_on_disk.model = "absent" \/ files_on_disk.scaler = "absent"

\* how detect ends: the fitted check, prepare_features, scaler.transform, model.predict
detect(self, df) ==
    IF ~self.fitted THEN NotTrained
    ELSE IF df = "no_value_column" THEN FrameError(df)
    ELSE IF self.scaler = "unfitted" THEN "NotFittedError"
    ELSE IF df = "empty" THEN FrameError(df)
    ELSE IF self.model = "unfitted" THEN "NotFittedError"
    ELSE "returned"

Train ==
    \E df \in Frames :
        /\ det_call' = [fn |-> "train", df |-> df]
        /\ detector' = train(detector, df)
        /\ det_result' = FrameError(df)
        /\ completed' = (completed \/ FrameError(df) = "returned")
        /\ UNCHANGED disk
        /\ UNCHANGED <<clientVars, routeVars, mlVars, threadVars>>

LoadModel ==
    /\ det_call' = [fn |-> "load_model"]
    /\ detector' = load_model(detector, disk)
    /\ det_result' = IF LoadRaises(disk) THEN "FileNotFoundError" ELSE "returned"
    /\ completed' = (completed \/ ~LoadRaises(disk))
    /\ UNCHANGED disk
    /\ UNCHANGED <<clientVars, routeVars, mlVars, threadVars>>

Detect ==
    \E df \in Frames :
        /\ det_call' = [fn |-> "detect", df |-> df]
        /\ det_result' = detect(detector, df)
        /\ UNCHANGED <<detector, completed, disk>>
        /\ UNCHANGED <<clientVars, routeVars, mlVars, threadVars>>

\* save_model: joblib.dump of the model, then of the scaler
SaveModel ==
    /\ det_call' = [fn |-> "save_model"]
    /\ disk' = [model |-> detector.model, scaler |-> detector.scaler]
    /\ det_result' = "returned"
    /\ UNCHANGED <<detector, completed>>
    /\ UNCHANGED <<clientVars, routeVars, mlVars, threadVars>>

\* a saved file is removed from the models directory
DeleteFile ==
    \E f \in {"model", "scaler"} :
        /\ disk[f] # "absent"
        /\ disk' = [disk EXCEPT ![f] = "absent"]
        /\ UNCHANGED <<detector, completed, det_call, det_result>>
        /\ UNCHANGED <<clientVars, routeVars, mlVars, threadVars>>

----------------------------------------------------------------------------
(* Data frames: src/data/preprocess.py, src/models/train_model.py,         *)
(* src/features/build_features.py                                          *)
(*                                                                         *)
(* A frame is a sequence of rows; a row is its index label and its cells,  *)
(* a record from column names to values.                                   *)

\* most rows in a frame handed to clean_data or create_time_features
MaxFrameRows == 3

\* pd.DataFrame(...) with the default RangeIndex
Frame(cells) == [i \in 1..Len(cells) |-> [index |-> i - 1, cells |-> cells[i]]]

\* the rows of df at the positions in I, in their order in df
Pick(df, I) ==
    [k \in 1..Cardinality(I) |-> df[CHOOSE i \in I : Cardinality({j \in I : j <= i}) = k]]

\* DataFrame.drop_duplicates(): a row is dropped when an earlier row has the same cells
drop_duplicates(df) ==
    Pick(df, {i \in 1..Len(df) : ~\E j \in 1..(i - 1) : df[j].cells = df[i].cells})

clean_data_keep_last(df) ==
    [df       |-> df,
     returned |-> Pick(df, {i \in 1..Len(df) : ~\E j \in (i + 1)..Len(df) : df[j].cells = df[i].cells})]

\* clean_data: works on a copy; df is the caller's frame after the call
clean_data(df) ==
    [df       |-> df,
     returned |-> drop_duplicates(df)]

\* frames of rows as in the test's frame, columns A and B
CleanInputs ==
    LET CleanCells == {[A |-> 1, B |-> 4], [A |-> 2, B |-> 5], [A |-> 2, B |-> 6]}
    IN  {[fn |-> "frame", df |-> Frame(c)] : c \in SeqsUpTo(CleanCells, MaxFrameRows)}

\* cleaned = clean_data(df) on a frame the caller holds
CallCleanData ==
    /\ call.fn = "frame"
    /\ call' = [fn |-> "clean_data", df |-> call.df, again |-> FALSE]
    /\ result' = clean_data(call.df)
    /\ UNCHANGED <<routeVars, mlVars, detVars, threadVars>>

\* clean_data(cleaned): the function applied to its own result
CallCleanDataAgain ==
    /\ call.fn = "clean_data" /\ ~call.again
    /\ call' = [fn |-> "clean_data", df |-> result.returned, again |-> TRUE]
    /\ result' = clean_data(result.returned)
    /\ UNCHANGED <<routeVars, mlVars, detVars, threadVars>>

\* most rows in a frame handed to split_data
MaxSplitRows == 4

\* the orders ShuffleSplit's rng.permutation(n) can put n row positions in
ShuffledOrders(n) == {f \in [1..n -> 1..n] : \A i, j \in 1..n : i # j => f[i] # f[j]}

\* X (the rows without the target column) and y for the rows at the positions
\* order[from..to]
Features(df, target_column, order, from, to) ==
    [k \in 1..(to - from + 1) |->
        [index |-> df[order[from + k - 1]].index,
         cells |-> [c \in DOMAIN df[order[from + k - 1]].cells \ {target_column} |->
                       df[order[from + k - 1]].cells[c]]]]
Targets(df, target_column, order, from, to) ==
    [k \in 1..(to - from + 1) |->
        [index |-> df[order[from + k - 1]].index,
         value |-> df[order[from + k - 1]].cells[target_column]]]

split_data_sets_swapped(df, target_column, test_tenths, permutation) ==
    LET n      == Len(df)
        n_test == (test_tenths * n + 9) \div 10
    IN  IF \E i \in 1..n : target_column \notin DOMAIN df[i].cells
        THEN [raised |-> "KeyError"]
        ELSE IF test_tenths <= 0 \/ test_tenths >= 10
        THEN [raised |-> "ValueError: test_size should be in the (0, 1) range"]
        ELSE IF n - n_test = 0
        THEN [raised |-> "ValueError: the resulting train set will be empty"]
        ELSE [raised  |-> "no",
              X_train |-> Features(df, target_column, permutation, 1, n_test),
              X_test  |-> Features(df, target_column, permutation, n_test + 1, n),
              y_train |-> Targets(df, target_column, permutation, 1, n_test),
              y_test  |-> Targets(df, target_column, permutation, n_test + 1, n)]

\* split_data: drop the target column, then train_test_split: n_test is
\* ceil(test_size * n) with test_size in tenths; the first n_test positions of the shuffled order are the test set, the
\* others the train set; ValueError when no row would be left to train on
split_data(df, target_column, test_tenths, permutation) ==
    LET n      == Len(df)
        n_test == (test_tenths * n + 9) \div 10
    IN  IF \E i \in 1..n : target_column \notin DOMAIN df[i].cells
        THEN [raised |-> "KeyError"]
        ELSE IF test_tenths <= 0 \/ test_tenths >= 10
        THEN [raised |-> "ValueError: test_size should be in the (0, 1) range"]
        ELSE IF n - n_test = 0
        THEN [raised |-> "ValueError: the resulting train set will be empty"]
        ELSE [raised  |-> "no",
              X_train |-> Features(df, target_column, permutation, n_test + 1, n),
              X_test  |-> Features(df, target_column, permutation, 1, n_test),
              y_train |-> Targets(df, target_column, permutation, n_test + 1, n),
              y_test  |-> Targets(df, target_column, permutation, 1, n_test)]

\* test_size 0.2 (the default), 0.5 and 1.0; a target column the frame has or lacks
SplitInputs ==
    LET SplitCells == {[feature1 |-> 1, target |-> 3], [feature1 |-> 2, target |-> 6]}
    IN  {[fn |-> "frame to split", df |-> Frame(c), target_column |-> col, test_tenths |-> t] :
            c \in SeqsUpTo(SplitCells, MaxSplitRows), col \in {"target", "label"}, t \in {2, 5, 10}}

\* X_train, X_test, y_train, y_test = split_data(df, target_column, test_size)
CallSplitData ==
    \E permutation \in ShuffledOrders(Len(call.df)) :
        /\ call.fn = "frame to split"
        /\ call' = [call EXCEPT !.fn = "split_data"]
        /\ result' = split_data(call.df, call.target_column, call.test_tenths, permutation)
        /\ UNCHANGED <<routeVars, mlVars, detVars, threadVars>>

\* a parsed date, and what pandas holds for a missing one
Timestamp(year, month, day) == [t |-> "Timestamp", year |-> year, month |-> month, day |-> day]
NaT == [t |-> "NaT"]

\* pd.to_datetime on one cell: a date string is parsed, a Timestamp is kept,
\* None becomes NaT; a string that is no date makes the whole call raise
Parseable(v) ==
    \/ v.t \in {"Timestamp", "None"}
    \/ v.t = "str" /\ v.v \in {"2023-01-15", "2023-06-20", "2024-02-29"}

to_datetime(v) ==
    CASE v.t = "Timestamp"   -> v
      [] v.t = "None"        -> NaT
      [] v = Str("2023-01-15") -> Timestamp(2023, 1, 15)
      [] v = Str("2023-06-20") -> Timestamp(2023, 6, 20)
      [] v = Str("2024-02-29") -> Timestamp(2024, 2, 29)

\* Series.dt.dayofweek (Monday is 0) and Series.dt.quarter of a Timestamp
dayofweek(ts) ==
    LET y      == IF ts.month < 3 THEN ts.year - 1 ELSE ts.year
        offset == <<0, 3, 2, 5, 0, 3, 5, 1, 4, 6, 2, 4>>
    IN  (y + (y \div 4) - (y \div 100) + (y \div 400) + offset[ts.month] + ts.day + 6) % 7

TimeColumns == {"year", "month", "day", "dayofweek", "quarter"}

\* the value each of the five assignments stores for a row; NaN for a NaT date
TimeFeature(ts, column) ==
    IF ts.t = "NaT" THEN NaN
    ELSE CASE column = "year"      -> ts.year
           [] column = "month"     -> ts.month
           [] column = "day"       -> ts.day
           [] column = "dayofweek" -> dayofweek(ts)
           [] column = "quarter"   -> ((ts.month - 1) \div 3) + 1

\* the row after df[date_column] = pd.to_datetime(...) and the five assignments
WithTimeFeatures(row, date_column) ==
    LET ts == to_datetime(row.cells[date_column])
    IN  [index |-> row.index,
         cells |-> [c \in DOMAIN row.cells \cup TimeColumns |->
                       IF c \in TimeColumns THEN TimeFeature(ts, c)
                       ELSE IF c = date_column THEN ts
                       ELSE row.cells[c]]]

create_time_features_in_place(df, date_column) ==
    IF \E i \in 1..Len(df) : date_column \notin DOMAIN df[i].cells
    THEN [raised |-> "KeyError", df |-> df]
    ELSE IF \E i \in 1..Len(df) : ~Parseable(df[i].cells[date_column])
    THEN [raised |-> "ValueError: Unknown datetime string format", df |-> df]
    ELSE [raised   |-> "no",
          df       |-> [i \in 1..Len(df) |-> WithTimeFeatures(df[i], date_column)],
          returned |-> [i \in 1..Len(df) |-> WithTimeFeatures(df[i], date_column)]]

\* create_time_features: works on a copy; df is the caller's frame after the call
create_time_features(df, date_column) ==
    IF \E i \in 1..Len(df) : date_column \notin DOMAIN df[i].cells
    THEN [raised |-> "KeyError", df |-> df]
    ELSE IF \E i \in 1..Len(df) : ~Parseable(df[i].cells[date_column])
    THEN [raised |-> "ValueError: Unknown datetime string format", df |-> df]
    ELSE [raised   |-> "no",
          df       |-> df,
          returned |-> [i \in 1..Len(df) |-> WithTimeFeatures(df[i], date_column)]]

\* rows as in the test's frame: a date as text, already parsed, missing or not a
\* date at all, and a value
TimeInputs ==
    LET TimeCells == {[date |-> d, value |-> 1] :
                         d \in {Str("2023-01-15"), Str("2023-06-20"), Str("2024-02-29"),
                                Timestamp(2023, 12, 31), None, Str("not a date")}}
                     \cup {[date |-> Str("2023-01-15"), value |-> 2]}
    IN  {[fn |-> "dated frame", df |-> Frame(c), date_column |-> col] :
            c \in SeqsUpTo(TimeCells, MaxFrameRows) \ {<<>>}, col \in {"date", "when"}}

\* result = create_time_features(df, date_column)
CallCreateTimeFeatures ==
    /\ call.fn = "dated frame"
    /\ call' = [call EXCEPT !.fn = "create_time_features"]
    /\ result' = create_time_features(call.df, call.date_column)
    /\ UNCHANGED <<routeVars, mlVars, detVars, threadVars>>

----------------------------------------------------------------------------
(* list_alerts under a threaded server: each request runs the handler in   *)
(* its own thread, one statement at a time, on the shared function         *)
(* attribute list_alerts.cached_alerts                                     *)

\* server threads handling /list requests at the same time
NumThreads == 2
Threads == 1..NumThreads

\* a thread between requests; response and covered are those of its last request
IdleThread ==
    [pc |-> "idle", method |-> "none", body |-> None, alerts |-> <<>>,
     covered |-> FALSE, solo |-> FALSE, response |-> [status |-> 0]]

\* bodies a POST /list carries: two alerts, one of them wrapped; nothing that
\* is an alert; a wrapper without its meta part; no 'alerts' key at all
PostBodies == {List(<<Alert1, Wrapped>>), List(<<Str("not an entity")>>),
               List(<<Alert3, WrappedNoMeta>>)}

BodyRaises(body) == \E i \in 1..Len(body.v) : NormalizeRaises(body.v[i])

Finished(t, answer) ==
    [threads EXCEPT ![t] = [IdleThread EXCEPT !.response = answer,
                                              !.covered = threads[t].covered]]

\* a request arrives and a thread enters list_alerts
StartList(t) ==
    \E method \in {"GET", "POST"}, body \in PostBodies \cup {None} :
        /\ threads[t].pc = "idle"
        /\ method = "GET" => body = None
        /\ threads' = [u \in Threads |->
              IF u = t
              THEN [pc |-> "hasattr", method |-> method, body |-> body, alerts |-> <<>>,
                    covered  |-> method = "GET" /\ settled,
                    solo     |-> /\ method = "POST"
                                 /\ ~\E other \in Threads \ {t} :
                                       /\ threads[other].pc # "idle"
                                       /\ threads[other].method = "POST",
                    response |-> [status |-> 0]]
              ELSE IF method = "POST" /\ threads[u].pc # "idle"
                   THEN [threads[u] EXCEPT !.covered = FALSE, !.solo = FALSE]
                   ELSE threads[u]]
        /\ settled' = (settled /\ method = "GET")
        /\ UNCHANGED <<has_cached_alerts, cached_alerts, posted, request, response, alert_service>>
        /\ UNCHANGED <<clientVars, mlVars, detVars>>

\* line 299: if not hasattr(list_alerts, 'cached_alerts')
HasAttr(t) ==
    /\ threads[t].pc = "hasattr"
    /\ threads' = [threads EXCEPT ![t].pc = IF has_cached_alerts THEN "method" ELSE "setattr"]
    /\ UNCHANGED <<has_cached_alerts, cached_alerts, posted, request, response, alert_service>>
    /\ UNCHANGED <<settled, clientVars, mlVars, detVars>>

\* line 300: list_alerts.cached_alerts = []
SetAttr(t) ==
    /\ threads[t].pc = "setattr"
    /\ has_cached_alerts' = TRUE
    /\ cached_alerts' = <<>>
    /\ threads' = [threads EXCEPT ![t].pc = "method"]
    /\ UNCHANGED <<posted, request, response, alert_service>>
    /\ UNCHANGED <<settled, clientVars, mlVars, detVars>>

\* lines 302-323: a POST with an 'alerts' key builds its local list, or dies
\* with a KeyError (a 500); anything else goes to the GET tail
Method(t) ==
    /\ threads[t].pc = "method"
    /\ threads' =
          IF threads[t].method = "POST" /\ threads[t].body # None
          THEN IF BodyRaises(threads[t].body)
               THEN Finished(t, [status |-> 500, body |-> [error |-> "Internal Server Error"]])
               ELSE [threads EXCEPT ![t].pc = "assign",
                                    ![t].alerts = NormalizeAlerts(threads[t].body.v)]
          ELSE [threads EXCEPT ![t].pc = "test"]
    /\ UNCHANGED <<has_cached_alerts, cached_alerts, posted, request, response, alert_service>>
    /\ UNCHANGED <<settled, clientVars, mlVars, detVars>>

\* line 325: list_alerts.cached_alerts = alerts
Assign(t) ==
    /\ threads[t].pc = "assign"
    /\ cached_alerts' = threads[t].alerts
    /\ threads' = [threads EXCEPT ![t].pc = "answer"]
    /\ UNCHANGED <<has_cached_alerts, posted, request, response, alert_service>>
    /\ UNCHANGED <<settled, clientVars, mlVars, detVars>>

\* lines 327-331: the 'Cached N alerts' answer
Answer(t) ==
    LET alerts == threads[t].alerts
    IN  /\ threads[t].pc = "answer"
        /\ threads' = Finished(t, Ok([success |-> TRUE, message |-> [cached |-> Len(alerts)],
                                      count |-> Len(alerts)]))
        /\ posted' = [answered |-> TRUE, count |-> Len(alerts), alerts |-> alerts]
        /\ settled' = (threads[t].solo /\ Len(alerts) > 0)
        /\ UNCHANGED <<has_cached_alerts, cached_alerts, request, response, alert_service>>
        /\ UNCHANGED <<clientVars, mlVars, detVars>>

\* line 334: if list_alerts.cached_alerts; the else branch answers the MCP spec
Test(t) ==
    /\ threads[t].pc = "test"
    /\ threads' = IF Len(cached_alerts) > 0
                  THEN [threads EXCEPT ![t].pc = "read_alerts"]
                  ELSE Finished(t, ListResponse(<<>>))
    /\ UNCHANGED <<has_cached_alerts, cached_alerts, posted, request, response, alert_service>>
    /\ UNCHANGED <<settled, clientVars, mlVars, detVars>>

\* line 337: 'alerts': list_alerts.cached_alerts
ReadAlerts(t) ==
    /\ threads[t].pc = "read_alerts"
    /\ threads' = [threads EXCEPT ![t].pc = "read_count", ![t].alerts = cached_alerts]
    /\ UNCHANGED <<has_cached_alerts, cached_alerts, posted, request, response, alert_service>>
    /\ UNCHANGED <<settled, clientVars, mlVars, detVars>>

\* lines 338-340: 'count': len(list_alerts.cached_alerts), 'cached': True
ReadCount(t) ==
    /\ threads[t].pc = "read_count"
    /\ threads' = Finished(t, Ok([success |-> TRUE, alerts |-> threads[t].alerts,
                                  count |-> Len(cached_alerts), cached |-> TRUE]))
    /\ UNCHANGED <<has_cached_alerts, cached_alerts, posted, request, response, alert_service>>
    /\ UNCHANGED <<settled, clientVars, mlVars, detVars>>

----------------------------------------------------------------------------
(* Specifications                                                          *)

ClientIdle == call = NoCall /\ result = None
RouteIdle  == /\ request = NoRequest
              /\ response = [status |-> 0]
              /\ has_cached_alerts = FALSE
              /\ cached_alerts = <<>>
              /\ posted = NoPost
              /\ alert_service = None
              /\ threads = [t \in Threads |-> IdleThread]
              /\ settled = FALSE
MlIdle     == /\ models = [name \in ModelNames |-> None]
              /\ ml_request = [route |-> "none"]
              /\ ml_response = [status |-> 0]
DetIdle    == /\ detector = NewDetector
              /\ completed = FALSE
              /\ det_call = [fn |-> "none"]
              /\ det_result = "none"

NothingSaved == [model |-> "absent", scaler |-> "absent"]

\* the state after import in a fresh checkout: no request served, no model
\* loaded or saved, a new detector
Init ==
    /\ ClientIdle /\ RouteIdle /\ MlIdle /\ DetIdle
    /\ files = [name \in ModelNames |-> FALSE]
    /\ disk = NothingSaved

\* the ml blueprint starts with any subset of the model files already saved
InitML ==
    /\ ClientIdle /\ RouteIdle /\ MlIdle /\ DetIdle
    /\ files \in [ModelNames -> BOOLEAN]
    /\ disk = NothingSaved

\* a detector starts with whatever an earlier run left in the models directory
InitDetector ==
    /\ ClientIdle /\ RouteIdle /\ MlIdle /\ DetIdle
    /\ files = [name \in ModelNames |-> FALSE]
    /\ disk \in [model : {"absent", "daily"}, scaler : {"absent", "daily"}]

\* direct use of CyodaAlertClient and GeminiCyodaIntegration
NextClient ==
    \/ CallClassifySeverity
    \/ CallDetermineAlertType
    \/ CallCreateAlert
    \/ CallCreateAlertEntitySpec
    \/ CallSearchAlerts
    \/ CallUpdateAlertStatus

SpecClient == Init /\ [][NextClient]_vars

\* the alert blueprint
Next ==
    \/ CreateAlertSpec
    \/ SearchAlertsSpec
    \/ UpdateAlertSpec
    \/ GetAlertSpec
    \/ ClassifyAlert
    \/ ListAlertsGet
    \/ ListAlertsPost
    \/ ListAlertsPostNoAlerts
    \/ AlertsSummary
    \/ PrioritizeAlerts

Spec == Init /\ [][Next]_vars

\* the ml blueprint
NextML ==
    \/ LstmForecast
    \/ ProphetForecast
    \/ DetectAnomalies
    \/ ClassifyPatterns
    \/ FilesChange

SpecML == InitML /\ [][NextML]_vars

\* one detector object
NextDetector ==
    \/ Train
    \/ LoadModel
    \/ Detect
    \/ SaveModel
    \/ DeleteFile

SpecDetector == InitDetector /\ [][NextDetector]_vars

\* a service used directly and through POST /detect
NextService ==
    \/ CallDetectAndCreateAlerts
    \/ DetectAlerts

SpecService == Init /\ [][NextService]_vars

\* a caller holding a list of alerts, about to prioritize it
InitPrioritize ==
    /\ call \in {[fn |-> "alerts", alerts |-> a] : a \in SeqsUpTo(PriorityAlerts, MaxPrioritized)}
    /\ result = None
    /\ RouteIdle /\ MlIdle /\ DetIdle
    /\ files = [name \in ModelNames |-> FALSE]
    /\ disk = NothingSaved

NextPrioritize == CallPrioritizeAlerts

SpecPrioritize == InitPrioritize /\ [][NextPrioritize]_vars

\* a caller holding a frame, about to hand it to one of the data functions
InitData ==
    /\ call \in CleanInputs \cup SplitInputs \cup TimeInputs
    /\ result = None
    /\ RouteIdle /\ MlIdle /\ DetIdle
    /\ files = [name \in ModelNames |-> FALSE]
    /\ disk = NothingSaved

NextData ==
    \/ CallCleanData
    \/ CallCleanDataAgain
    \/ CallSplitData
    \/ CallCreateTimeFeatures

SpecData == InitData /\ [][NextData]_vars

\* /list served by concurrent threads, from a fresh process
NextThreads ==
    \E t \in Threads :
        \/ StartList(t)
        \/ HasAttr(t)
        \/ SetAttr(t)
        \/ Method(t)
        \/ Assign(t)
        \/ Answer(t)
        \/ Test(t)
        \/ ReadAlerts(t)
        \/ ReadCount(t)

SpecThreads == Init /\ [][NextThreads]_vars

----------------------------------------------------------------------------
(* Claims                                                                  *)

\* C1: for every anomaly score, value and metric, classify_severity returns one
\* label and that label is low, medium, high or critical.
C1_SeverityIsALabel ==
    call.fn = "classify_severity" => result \in Severities

\* a call on the default branch (neither temperature nor precipitation) that came out low
C1_Witness ==
    /\ call.fn = "classify_severity"
    /\ call.metric = Str("humidity")
    /\ call.anomaly_score = F(50)
    /\ result = "low"

\* C2: for metric temperature the label is critical exactly when score > 0.9 or
\* value > 40 or value < -10; otherwise high exactly when score > 0.7 or value > 35
\* or value < -5; otherwise medium exactly when score > 0.5; otherwise low.
C2_TemperatureSeverity ==
    (call.fn = "classify_severity" /\ call.metric = Str("temperature")) =>
        LET a        == call.anomaly_score
            v        == call.value
            critical == GT(a, 90) \/ GT(v, 400) \/ LT(v, -100)
            high     == GT(a, 70) \/ GT(v, 350) \/ LT(v, -50)
            medium   == GT(a, 50)
        IN  /\ (result = "critical") <=> critical
            /\ (result = "high")     <=> (~critical /\ high)
            /\ (result = "medium")   <=> (~critical /\ ~high /\ medium)
            /\ (result = "low")      <=> (~critical /\ ~high /\ ~medium)

\* exactly 35 degrees with a low score: not above the high threshold, so low
C2_Witness ==
    /\ call.fn = "classify_severity"
    /\ call.metric = Str("temperature")
    /\ call.value = F(350)
    /\ call.anomaly_score = F(50)
    /\ result = "low"

\* C3: determine_alert_type gives, for temperature, heat_wave when value > 35,
\* freeze_event when value < 0, cold_snap when 0 <= value < 5 and
\* temperature_anomaly otherwise; for precipitation, extreme_precipitation when
\* value > 50, drought_indicator when value < 0.1 and precipitation_anomaly
\* otherwise; for any other metric climate_anomaly.
C3_AlertType ==
    call.fn = "determine_alert_type" =>
        LET v == call.value
        IN  IF call.metric = Str("temperature") THEN
                /\ (result = "heat_wave")    <=> GT(v, 350)
                /\ (result = "freeze_event") <=> LT(v, 0)
                /\ (result = "cold_snap")    <=> (~v.nan /\ 0 <= v.x /\ v.x < 50)
                /\ (result = "temperature_anomaly")
                       <=> ~(GT(v, 350) \/ LT(v, 0) \/ (~v.nan /\ 0 <= v.x /\ v.x < 50))
            ELSE IF call.metric = Str("precipitation") THEN
                /\ (result = "extreme_precipitation") <=> GT(v, 500)
                /\ (result = "drought_indicator")     <=> LT(v, 1)
                /\ (result = "precipitation_anomaly") <=> ~(GT(v, 500) \/ LT(v, 1))
            ELSE result = "climate_anomaly"

\* a temperature just below zero is a freeze event, not a cold snap
C3_Witness ==
    /\ call.fn = "determine_alert_type"
    /\ call.metric = Str("temperature")
    /\ call.value = F(-1)
    /\ result = "freeze_event"

\* C4: every alert-creation specification, from create_alert or from
\* _create_alert_entity_spec, has entity_model climate_alert, entity_version 1
\* and entity_data with status active, acknowledged false and resolved false,
\* whatever the arguments.
C4_NewAlertIsActive ==
    call.fn \in {"create_alert", "_create_alert_entity_spec"} =>
        /\ result.entity_model = "climate_alert"
        /\ result.entity_version = "1"
        /\ result.entity_data["status"] = Str("active")
        /\ result.entity_data["acknowledged"] = Bool(FALSE)
        /\ result.entity_data["resolved"] = Bool(FALSE)

\* create_alert was given an ai_analysis that itself says status resolved
C4_Witness ==
    /\ call.fn = "create_alert"
    /\ call.ai_analysis.t = "dict"
    /\ "status" \in DOMAIN call.ai_analysis.v
    /\ "ai_analysis" \in DOMAIN result.entity_data
    /\ result.entity_data["status"] = Str("active")

GeneratorRoutes == {"/create", "/search", "/update", "/get", "/classify", "/summary", "/prioritize"}

\* C5: a request to /create, /search, /update/<id>, /get/<id>, /classify, /summary
\* or /prioritize leaves the cached alert list unchanged; the list changes only
\* in a POST to /list.
C5_SpecsLeaveCache ==
    [][/\ request'.route \in GeneratorRoutes
            => (cached_alerts' = cached_alerts /\ has_cached_alerts' = has_cached_alerts)
       /\ cached_alerts' # cached_alerts
            => (request'.method = "POST" /\ request'.route = "/list")]_vars

\* a specification was generated while the cache held alerts
C5_Witness ==
    /\ request.route = "/prioritize"
    /\ Len(request.alerts) = 2
    /\ response.status = 200
    /\ Len(cached_alerts) > 0

IsListGet == request.method = "GET" /\ request.route = "/list"

\* C6 as stated: after a POST to /list answered 'Cached N alerts', the next GET
\* with no POST in between returns those N alerts, count N and cached true; the
\* answer with cached false comes only when no POST has cached anything.
C6_AsStated ==
    IsListGet =>
        IF posted.answered
        THEN /\ response.body.cached = TRUE
             /\ response.body.alerts = posted.alerts
             /\ response.body.count = posted.count
        ELSE /\ response.body.cached = FALSE
             /\ response.body.mcp_spec = list_all_alerts

\* C6: after a POST to /list answered 'Cached N alerts' with N >= 1, the next GET
\* with no POST in between returns those N alerts, count N and cached true; GET
\* returns the MCP list specification with cached false exactly when the cache
\* holds no alerts, which is before any caching POST and after one that answered
\* 'Cached 0 alerts'.
C6_GetReturnsLastPost ==
    IsListGet =>
        IF posted.answered /\ posted.count >= 1
        THEN /\ response.body.cached = TRUE
             /\ response.body.alerts = posted.alerts
             /\ response.body.count = posted.count
             /\ Len(response.body.alerts) = posted.count
        ELSE /\ response.body.cached = FALSE
             /\ response.body.mcp_spec = list_all_alerts
             /\ response.body.alerts = <<>>

\* a GET served after a POST that cached two alerts, one of them unwrapped
C6_Witness ==
    /\ IsListGet
    /\ posted.answered
    /\ posted.count = 2
    /\ response.body.cached = TRUE
    /\ \E i \in 1..2 : "technical_id" \in DOMAIN response.body.alerts[i].v

\* the six filters of a search_alerts call in the order the code tests them
FilterConditions(c) ==
    << [value |-> c.status, numeric |-> FALSE,
        cond |-> Simple("$.status", "EQUALS", c.status)],
       [value |-> c.severity, numeric |-> FALSE,
        cond |-> Simple("$.severity", "EQUALS", c.severity)],
       [value |-> c.alert_type, numeric |-> FALSE,
        cond |-> Simple("$.alert_type", "EQUALS", c.alert_type)],
       [value |-> c.min_anomaly_score, numeric |-> TRUE,
        cond |-> Simple("$.anomaly_score", "GREATER_THAN", c.min_anomaly_score)],
       [value |-> c.date_from, numeric |-> FALSE,
        cond |-> Simple("$.date", "GREATER_THAN", c.date_from)],
       [value |-> c.date_to, numeric |-> FALSE,
        cond |-> Simple("$.date", "LESS_THAN", c.date_to)] >>

\* a filter is supplied when the caller passed something other than None
IsPassed(f) == f.value # None

\* a filter is supplied when it is a non-empty string, or any number for the score
IsPassedNonEmpty(f) == IF f.numeric THEN f.value # None ELSE Truthy(f.value)

CondsOf(fs) == [i \in 1..Len(fs) |-> fs[i].cond]

\* {} for no condition, the condition itself for one, an AND group for more
ExpectedSearchConditions(conds) ==
    CASE Len(conds) = 0 -> Dict(EmptyDict)
      [] Len(conds) = 1 -> Dict(conds[1])
      [] OTHER          -> Dict([type |-> "group", operator |-> "AND", conditions |-> conds])

\* C7 as stated: one simple condition per supplied filter, in the order status,
\* severity, alert_type, min_anomaly_score, date_from, date_to, none for an
\* omitted one; {} for none, the condition itself for one, an AND group for more.
C7_AsStated ==
    call.fn = "search_alerts" =>
        result.search_conditions =
            ExpectedSearchConditions(CondsOf(SelectSeq(FilterConditions(call), IsPassed)))

\* C7: one simple condition per filter that is supplied and not empty (a
\* non-empty string for status, severity, alert_type, date_from and date_to; any
\* number, 0 included, for min_anomaly_score), in that order, and none for a
\* filter that is omitted or is the empty string; {} for none, the condition
\* itself for one, an AND group holding all of them for more.
C7_SearchConditions ==
    call.fn = "search_alerts" =>
        result.search_conditions =
            ExpectedSearchConditions(CondsOf(SelectSeq(FilterConditions(call), IsPassedNonEmpty)))

\* status was passed as the empty string and only min_anomaly_score = 0 counted
C7_Witness ==
    /\ call.fn = "search_alerts"
    /\ call.status = Str("")
    /\ call.min_anomaly_score = F(0)
    /\ call.severity = None /\ call.alert_type = None
    /\ call.date_from = None /\ call.date_to = None
    /\ result.search_conditions = Dict(Simple("$.anomaly_score", "GREATER_THAN", F(0)))

\* C8: the entity_data of update_alert_status always carries status,
\* acknowledged, resolved and updated_at; it has resolved_at exactly when
\* resolved is true, and acknowledged_at exactly when acknowledged is true and
\* resolved is false.
C8_UpdateStamps ==
    call.fn = "update_alert_status" =>
        LET e == result.entity_data
        IN  /\ {"status", "acknowledged", "resolved", "updated_at"} \subseteq DOMAIN e
            /\ e["status"] = call.status
            /\ e["acknowledged"] = call.acknowledged
            /\ e["resolved"] = call.resolved
            /\ ("resolved_at" \in DOMAIN e) <=> (call.resolved = Bool(TRUE))
            /\ ("acknowledged_at" \in DOMAIN e)
                   <=> (call.acknowledged = Bool(TRUE) /\ call.resolved = Bool(FALSE))

\* acknowledged and resolved together: only resolved_at is stamped
C8_Witness ==
    /\ call.fn = "update_alert_status"
    /\ call.acknowledged = Bool(TRUE)
    /\ call.resolved = Bool(TRUE)
    /\ "resolved_at" \in DOMAIN result.entity_data
    /\ "acknowledged_at" \notin DOMAIN result.entity_data

\* C9: for each of the four loaders, when loading the saved files fails the
\* loader returns None and the route answers 503 'not trained yet', on the first
\* request and on every later one while the files stay unavailable.
C9_LoadFailureGives503 ==
    (/\ ml_request.route # "none"
     /\ ml_request.valid
     /\ ~ml_request.files_ok
     /\ ~(models[ml_request.model] # None /\ models[ml_request.model].fitted)) =>
        /\ models[ml_request.model] = None
        /\ ml_response.status = 503
        /\ ml_response.body.error = NotTrainedYet(ml_request.model)

\* C10: detect raises ValueError 'Model not trained yet!' exactly when no train
\* or load_model call has completed before it, and once one has completed the
\* detector stays fitted.
C10_NotTrainedIffNothingCompleted ==
    /\ det_call.fn = "detect" => (det_result = NotTrained <=> ~completed)
    /\ completed => detector.fitted
    /\ detector.fitted => completed

\* detect ran after a load_model that failed half way and before any call completed
C10_Witness ==
    /\ det_call.fn = "detect"
    /\ ~completed
    /\ detector.model = "daily"
    /\ detector.scaler = "unfitted"
    /\ det_result = NotTrained

\* C11: detect_and_create_alerts raises ValueError when the service has no anomaly
\* detector or no Cyoda client, before it runs detection, calls the AI client or
\* builds an alert specification; POST /detect then answers 500 with that message
C11_ValueErrorBeforeAnyWork ==
    /\ (call.fn = "detect_and_create_alerts"
        /\ (call.self.anomaly_detector = None \/ call.self.cyoda_client = None))
       => /\ result.raised \in {"ValueError: Anomaly detector not initialized",
                                "ValueError: Cyoda client not initialized"}
          /\ result.effects = <<>>
          /\ result.alerts = <<>>
    /\ (request.route = "/detect" /\ request.data # <<>> /\ alert_service.anomaly_detector = None)
       => response = Err(500, "Anomaly detector not initialized")

C11_Witness ==
    /\ call.fn = "detect_and_create_alerts"
    /\ call.self.anomaly_detector = FittedDetector
    /\ call.self.cyoda_client = None
    /\ Len(call.climate_data) > 0
    /\ result.raised = "ValueError: Cyoda client not initialized"
    /\ result.effects = <<>>

Occurrences(q, a) == Cardinality({i \in 1..Len(q) : q[i] = a})

\* C12: prioritize_alerts returns exactly the input alerts, each as often as it
\* was given, and the priority score never increases from one position to the next
C12_SortedPermutation ==
    call.fn = "prioritize_alerts"
    => /\ Len(result.sorted) = Len(call.alerts)
       /\ \A a \in PriorityAlerts : Occurrences(result.sorted, a) = Occurrences(call.alerts, a)
       /\ \A i \in 1..(Len(result.sorted) - 1) :
            PriorityScore30(result.sorted[i]) >= PriorityScore30(result.sorted[i + 1])

C12_Witness ==
    /\ call.fn = "prioritize_alerts"
    /\ Len(call.alerts) = 2
    /\ PriorityScore30(call.alerts[1]) < PriorityScore30(call.alerts[2])
    /\ result.sorted = <<call.alerts[2], call.alerts[1]>>

IsLabelled(alert) == Get(alert.v, "severity", None) \in {Str(l) : l \in Severities}
Acknowledged(alert) == Truthy(Get(alert.v, "acknowledged", Bool(FALSE)))

\* C13: of two alerts with the same acknowledged flag, the one with the strictly
\* higher severity is never placed after the other, whatever their dates and
\* their order in the input
C13_HigherSeverityFirst ==
    call.fn = "prioritize_alerts"
    => \A i, j \in 1..Len(result.sorted) :
         (/\ i < j
          /\ IsLabelled(result.sorted[i]) /\ IsLabelled(result.sorted[j])
          /\ Acknowledged(result.sorted[i]) = Acknowledged(result.sorted[j]))
         => SeverityOrder(result.sorted[i].v.severity) >= SeverityOrder(result.sorted[j].v.severity)

\* C14: the recency term of every alert's priority score lies between 0 and 1
\* inclusive (0 to 30 thirtieths), whatever the alert's date
C14_RecencyNormalised ==
    call.fn = "prioritize_alerts"
    => \A i \in 1..Len(call.alerts) : result.keys[i].recency_score30 \in 0..30

CellsOf(df) == {df[i].cells : i \in 1..Len(df)}
FirstAt(df, c) == CHOOSE i \in 1..Len(df) : df[i].cells = c /\ \A j \in 1..(i - 1) : df[j].cells # c

\* C15: clean_data returns each distinct row of the input exactly once, in the
\* order of first occurrence, leaves the input frame as it was, and applied to
\* its own result changes nothing
C15_CleanData ==
    call.fn = "clean_data"
    => LET out == result.returned
       IN  /\ CellsOf(out) = CellsOf(call.df)
           /\ \A i, j \in 1..Len(out) : i # j => out[i].cells # out[j].cells
           /\ \A i, j \in 1..Len(out) :
                i < j => FirstAt(call.df, out[i].cells) < FirstAt(call.df, out[j].cells)
           /\ \A i \in 1..Len(out) : out[i] = call.df[FirstAt(call.df, out[i].cells)]
           /\ result.df = call.df
           /\ call.again => out = call.df

C15_Witness ==
    /\ call.fn = "clean_data" /\ call.again
    /\ Len(call.df) = 2
    /\ call.df[1].index = 0 /\ call.df[2].index = 2
    /\ result.returned = call.df

Labels(rows) == {rows[k].index : k \in 1..Len(rows)}
RowAt(df, label) == df[CHOOSE i \in 1..Len(df) : df[i].index = label]

\* every X row is an input row without its target cell, and the y value at the
\* same position is that row's target
PairedWithOwnRow(df, target_column, X, y) ==
    /\ Len(X) = Len(y)
    /\ \A k \in 1..Len(X) :
        /\ X[k].index \in Labels(df)
        /\ y[k].index = X[k].index
        /\ target_column \notin DOMAIN X[k].cells
        /\ \A c \in DOMAIN X[k].cells : X[k].cells[c] = RowAt(df, X[k].index).cells[c]
        /\ DOMAIN X[k].cells \cup {target_column} = DOMAIN RowAt(df, X[k].index).cells
        /\ y[k].value = RowAt(df, X[k].index).cells[target_column]

\* C16: a split that returns puts every input row in exactly one of the train
\* and test sets; the test set holds the test_size fraction of the rows, rounded
\* up to whole rows, and the train set the rest; no feature set has the target
\* column and each target value stays with the features of its own row
C16_SplitPartitions ==
    (call.fn = "split_data" /\ result.raised = "no")
    => LET n == Len(call.df)
       IN  /\ Labels(result.X_train) \cup Labels(result.X_test) = Labels(call.df)
           /\ Labels(result.X_train) \cap Labels(result.X_test) = {}
           /\ Cardinality(Labels(result.X_train)) = Len(result.X_train)
           /\ Cardinality(Labels(result.X_test)) = Len(result.X_test)
           /\ 10 * Len(result.X_test) >= call.test_tenths * n
           /\ 10 * (Len(result.X_test) - 1) < call.test_tenths * n
           /\ Len(result.X_train) = n - Len(result.X_test)
           /\ PairedWithOwnRow(call.df, call.target_column, result.X_train, result.y_train)
           /\ PairedWithOwnRow(call.df, call.target_column, result.X_test, result.y_test)

C16_Witness ==
    /\ call.fn = "split_data" /\ result.raised = "no"
    /\ Len(call.df) = 4 /\ call.test_tenths = 5
    /\ Len(result.X_test) = 2 /\ Len(result.X_train) = 2
    /\ result.X_test[1].index = 3
    /\ result.y_test[1].value # result.y_train[1].value

\* the calendar fields of the dates the frames carry
CalendarFields(date) ==
    CASE date = Str("2023-01-15") -> [year |-> 2023, month |-> 1, day |-> 15]
      [] date = Str("2023-06-20") -> [year |-> 2023, month |-> 6, day |-> 20]
      [] date = Str("2024-02-29") -> [year |-> 2024, month |-> 2, day |-> 29]
      [] date.t = "Timestamp"     -> [year |-> date.year, month |-> date.month, day |-> date.day]

\* same rows in the same order, the five columns added, year, month and day
\* those of the row's date, the caller's frame untouched
RowsKeptAndDated ==
    LET df  == call.df
        out == result.returned
    IN  /\ Len(out) = Len(df)
        /\ result.df = df
        /\ \A i \in 1..Len(df) :
            /\ out[i].index = df[i].index
            /\ DOMAIN out[i].cells = DOMAIN df[i].cells \cup TimeColumns
            /\ df[i].cells[call.date_column] # None
               => /\ out[i].cells.year  = CalendarFields(df[i].cells[call.date_column]).year
                  /\ out[i].cells.month = CalendarFields(df[i].cells[call.date_column]).month
                  /\ out[i].cells.day   = CalendarFields(df[i].cells[call.date_column]).day

\* C17 as stated: ... and every column other than the five new ones keeps its
\* values (a missing value counts as kept when it is still missing)
C17_AsStated ==
    (call.fn = "create_time_features" /\ result.raised = "no")
    => /\ RowsKeptAndDated
       /\ \A i \in 1..Len(call.df) : \A c \in DOMAIN call.df[i].cells \ TimeColumns :
            IF c = call.date_column /\ call.df[i].cells[c].t = "None"
            THEN result.returned[i].cells[c].t \in {"None", "NaT"}
            ELSE result.returned[i].cells[c] = call.df[i].cells[c]

\* C17: create_time_features returns the same rows in the same order plus year,
\* month, day, dayofweek and quarter, where year, month and day are the calendar
\* fields of the row's date; the date column holds the parsed date in place of
\* its text, every column besides it and the five keeps its values, and the
\* caller's frame is not modified
C17_TimeFeatures ==
    (call.fn = "create_time_features" /\ result.raised = "no")
    => /\ RowsKeptAndDated
       /\ \A i \in 1..Len(call.df) :
            /\ \A c \in DOMAIN call.df[i].cells \ (TimeColumns \cup {call.date_column}) :
                 result.returned[i].cells[c] = call.df[i].cells[c]
            /\ LET before == call.df[i].cells[call.date_column]
                   after  == result.returned[i].cells[call.date_column]
               IN  CASE before.t = "Timestamp" -> after = before
                     [] before.t = "None"      -> after = NaT
                     [] OTHER -> after = Timestamp(CalendarFields(before).year,
                                     CalendarFields(before).month, CalendarFields(before).day)

C17_Witness ==
    /\ call.fn = "create_time_features" /\ result.raised = "no"
    /\ Len(call.df) = 2
    /\ call.df[1].cells.date = Str("2024-02-29")
    /\ call.df[2].cells.date = Timestamp(2023, 12, 31)
    /\ result.returned[1].cells.date = Timestamp(2024, 2, 29)
    /\ result.returned[1].cells.dayofweek = 3
    /\ result.returned[2].cells.quarter = 4
    /\ result.df = call.df

\* C18: with /list handled by concurrent threads the cache is always empty or
\* the complete normalised list of a single POST, and once a POST of a non-empty
\* list has answered success, a GET that starts afterwards with no later POST
\* answers a non-empty cached list, also when these are the first requests served
C18_CacheWholeAndServed ==
    /\ \/ cached_alerts = <<>>
       \/ \E body \in PostBodies : ~BodyRaises(body) /\ cached_alerts = NormalizeAlerts(body.v)
    /\ \A t \in Threads :
        (threads[t].pc = "idle" /\ threads[t].covered)
        => /\ threads[t].response.status = 200
           /\ threads[t].response.body.cached = TRUE
           /\ Len(threads[t].response.body.alerts) > 0

====
